---- MODULE Spec2Model ----
(***************************************************************************)
(* Model of main.py: the ESP32 uploader.                                   *)
(*                                                                         *)
(* One Tk thread runs everything.  The event loop (mainloop, and the       *)
(* nested loops of the file dialog and of self.update()) dispatches two    *)
(* callbacks: the timer callback task() and the button command             *)
(* upload_zip_folder().  Both call get_device(), which probes the serial   *)
(* ports through ESP32.check_status().  The environment supplies the port  *)
(* snapshot, the text and exit code of every esptool run, the dialog's     *)
(* answer, the archive and the size of every materialised entry.           *)
(***************************************************************************)
EXTENDS Integers, Sequences, FiniteSets, TLC

VARIABLES
    pc,             \* position of the Tk thread
    stack,          \* upload_zip_folder frames suspended in a nested event loop
    current_status, \* global current_status
    pendingTasks,   \* number of scheduled after(1000, task) callbacks
    status_text,    \* text of the self.status label
    caller,         \* who runs get_device: "task", "upload" or "none"
    ports,          \* get_device: ports
    probed,         \* get_device: the check_status calls made so far
    ret,            \* get_device: the returned pair
    file_path,      \* upload_zip_folder: file_path
    device,         \* upload_zip_folder: device
    zip,            \* upload_zip_folder: zip.filelist (the entry names)
    file_list,      \* upload_zip_folder: file_list (indices into zip)
    i,              \* upload_zip_folder: position of the for loop in file_list
    current_address,\* upload_zip_folder: current_address
    temp_files,     \* the temp<ext> files in the working directory
    effects,        \* what the running (or last) upload_zip_folder call did outside
    uploadResult    \* how the running (or last) upload_zip_folder call ended

vars == <<pc, stack, current_status, pendingTasks, status_text, caller, ports,
          probed, ret, file_path, device, zip, file_list, i, current_address,
          temp_files, effects, uploadResult>>

getDeviceVars == <<caller, ports, probed, ret>>
uploadVars == <<file_path, device, zip, file_list, i, current_address>>

----------------------------------------------------------------------------
(* Bounds of the model *)

MaxPorts == 3
MaxEntries == 3
MaxDepth == 1

----------------------------------------------------------------------------
(* Constants of main.py *)

CHUNK_SIZE == 4096

DEVICE_FOUND == 0
DEVICE_FOUND_OUTPUT == "ESP device found. Ready to upload."

BOOT_MODE_ERROR == 1
BOOT_MODE_ERROR_TEXT == "Wrong boot mode detected"
BOOT_MODE_ERROR_OUTPUT == "ESP device not in proper boot mode. Please put the device in download mode."

NO_DEVICE_FOUND == 2
NO_DEVICE_FOUND_TEXT == "fatal error occurred: Failed to connect"
NO_DEVICE_FOUND_OUTPUT == "No ESP device found. Please attach the device through a USB port."

\* Python's None, for current_status, a device, and the unused fields of a record
None == -1

CHECKING_OUTPUT == "Checking for an ESP device..."
UPLOADING_OUTPUT == "Uploading files... (this may take a while)"
SUCCESS_OUTPUT == "Files uploaded successfully!"

----------------------------------------------------------------------------
(* The environment *)

\* list_ports.comports(): a port is the tuple (device, description, hwid)
PortInfo(n) == <<n, 100 + n, 200 + n>>

RECURSIVE SeqsUpTo(_, _)
SeqsUpTo(S, n) ==
    IF n = 0 THEN {<<>>}
    ELSE LET shorter == SeqsUpTo(S, n - 1)
         IN  shorter \cup {Append(s, x) : s \in {t \in shorter : Len(t) = n - 1},
                                          x \in S}

\* a snapshot lists every port once
PortSnapshots ==
    {s \in SeqsUpTo({PortInfo(n) : n \in 1..MaxPorts}, MaxPorts) :
        \A a, b \in 1..Len(s) : a # b => s[a] # s[b]}

\* stdout of `esptool flash_id`, as the set of the signatures it contains
Texts == SUBSET {BOOT_MODE_ERROR_TEXT, NO_DEVICE_FOUND_TEXT}

\* exit codes of an esptool run
ReturnCodes == {0, 1}

\* entry names of an archive, as character sequences
NameTxt == <<"a", ".", "t", "x", "t">>
NameBin == <<"b", ".", "b", "i", "n">>
NameSep == <<"/">>
NameEmpty == <<>>
NameDir == <<"d", "/">>
Names == {NameTxt, NameBin, NameSep, NameEmpty, NameDir}

Archives == SeqsUpTo(Names, MaxEntries)

\* byte lengths of a materialised entry
Sizes == {10, CHUNK_SIZE, 5000}

\* answers of filedialog.askopenfilename: cancelled, or a path
NoPath == ""
ZipPath == "bundle.zip"
Paths == {NoPath, ZipPath}

----------------------------------------------------------------------------
(* Pure functions *)

\* str.endswith
EndsWith(s, suffix) ==
    /\ Len(s) >= Len(suffix)
    /\ SubSeq(s, Len(s) - Len(suffix) + 1, Len(s)) = suffix

DotBin == <<".", "b", "i", "n">>

\* `x in text` for an esptool signature x
Contains(text, signature) == signature \in text

\* a run whose exit status is never looked at
RaisesCalledProcessError_Never(check, returncode) == FALSE

\* subprocess.run(..., check=check) raises CalledProcessError
RaisesCalledProcessError(check, returncode) == check /\ returncode # 0

\* ESP32.__init__
ESP32(port) == [port |-> port]

\* check_status with its two tests in the other order
check_status_NoDeviceFirst(text) ==
    IF Contains(text, NO_DEVICE_FOUND_TEXT) THEN NO_DEVICE_FOUND
    ELSE IF Contains(text, BOOT_MODE_ERROR_TEXT) THEN BOOT_MODE_ERROR
    ELSE DEVICE_FOUND

\* ESP32.check_status: the classification of the captured stdout
check_status(text) ==
    IF Contains(text, BOOT_MODE_ERROR_TEXT) THEN BOOT_MODE_ERROR
    ELSE IF Contains(text, NO_DEVICE_FOUND_TEXT) THEN NO_DEVICE_FOUND
    ELSE DEVICE_FOUND

\* ESP32.check_status runs esptool without check=True
check_status_check == FALSE

\* clear_flash and upload_file without check=True
clear_flash_Unchecked == FALSE
upload_file_Unchecked == FALSE

\* ESP32.clear_flash, upload_file and upload_program run esptool with check=True
clear_flash_check == TRUE
upload_file_check == TRUE
upload_program_check == TRUE

\* the device built from the port's description
NewDevice_FromDescription(port) == ESP32(port[2])

\* get_device: device = ESP32(port[0])
NewDevice(port) == ESP32(port[1])

\* None where a device is expected
NoDevice == [port |-> None]

\* get_device going on to the next port after a boot mode error
LoopReturn_SkipBootModeError(dev, status) ==
    IF status = DEVICE_FOUND
    THEN [done |-> TRUE, device |-> dev, status |-> status]
    ELSE [done |-> FALSE, device |-> NoDevice, status |-> status]

\* get_device with the else attached to the if: the first miss returns
LoopReturn_ReturnOnMiss(dev, status) ==
    IF status = DEVICE_FOUND
    THEN [done |-> TRUE, device |-> dev, status |-> status]
    ELSE [done |-> TRUE, device |-> NoDevice, status |-> status]

\* get_device: the two returns inside the for loop; done is FALSE where the
\* loop goes on to the next port
LoopReturn(dev, status) ==
    IF status = DEVICE_FOUND
    THEN [done |-> TRUE, device |-> dev, status |-> status]
    ELSE IF status = BOOT_MODE_ERROR
         THEN [done |-> TRUE, device |-> NoDevice, status |-> status]
         ELSE [done |-> FALSE, device |-> NoDevice, status |-> status]

\* get_device: the return of the for loop's else branch
ForElseReturn == [device |-> NoDevice, status |-> NO_DEVICE_FOUND]

\* a guard that rejects the one status NO_DEVICE_FOUND
GuardRejects_NoDeviceOnly(status) == status = NO_DEVICE_FOUND

\* upload_zip_folder: the guard on the last known status
GuardRejects(status) == status # DEVICE_FOUND

\* upload_zip_folder: file_list, the .bin entries and then the others
RECURSIVE Select(_, _, _)
Select(names, k, wantBin) ==
    IF k > Len(names) THEN <<>>
    ELSE IF EndsWith(names[k], DotBin) = wantBin
         THEN <<k>> \o Select(names, k + 1, wantBin)
         ELSE Select(names, k + 1, wantBin)

\* file_list in the order of the archive
FileList_ArchiveOrder(names) == [k \in 1..Len(names) |-> k]

FileList(names) == Select(names, 1, TRUE) \o Select(names, 1, FALSE)

\* upload_zip_folder: file_name.filename in [None, '/']
Skipped(name) == name = <<"/">>

\* str.rindex("."): 0 stands for the ValueError
RIndexDot(name) ==
    LET at == {k \in 1..Len(name) : name[k] = "."}
    IN  IF at = {} THEN 0 ELSE CHOOSE k \in at : \A m \in at : m <= k

\* upload_zip_folder: temp_path
TempPath(name) == <<"t", "e", "m", "p">> \o SubSeq(name, RIndexDot(name), Len(name))

\* open(temp_path, 'wb') fails when temp_path names a file in a missing directory
OpenFails(path) == \E k \in 1..Len(path) : path[k] = "/"

\* the next file right behind the last one, on no chunk boundary
NextAddress_Packed(address, size) == address + size

\* the new address rounded down
NextAddress_RoundedDown(address, size) ==
    ((address + size) \div CHUNK_SIZE) * CHUNK_SIZE

\* upload_zip_folder: the new current_address
NextAddress(address, size) == ((address + size) \div CHUNK_SIZE + 1) * CHUNK_SIZE

----------------------------------------------------------------------------
(* Records of the outside effects of an upload_zip_folder call *)

Effect(cmd, port, address, entry, size, returncode) ==
    [cmd |-> cmd, port |-> port, address |-> address, entry |-> entry,
     size |-> size, returncode |-> returncode]

DialogEffect == Effect("askopenfilename", None, None, None, None, None)
EraseEffect(port, rc) == Effect("erase_flash", port, None, None, None, rc)
OpenEffect == Effect("ZipFile", None, None, None, None, None)
WriteEffect(port, address, entry, size, rc) ==
    Effect("write_flash", port, address, entry, size, rc)
SuccessEffect == Effect("status.config:success", None, None, None, None, None)

NoRet == [device |-> NoDevice, status |-> None]

----------------------------------------------------------------------------
(* Initial state: GUI() constructed, run() has scheduled the first task *)

Init ==
    /\ pc = "mainloop"
    /\ stack = <<>>
    /\ current_status = None
    /\ pendingTasks = 1
    /\ status_text = CHECKING_OUTPUT
    /\ caller = "none"
    /\ ports = <<>>
    /\ probed = <<>>
    /\ ret = NoRet
    /\ file_path = NoPath
    /\ device = NoDevice
    /\ zip = <<>>
    /\ file_list = <<>>
    /\ i = 0
    /\ current_address = 0
    /\ temp_files = {}
    /\ effects = <<>>
    /\ uploadResult = "none"

----------------------------------------------------------------------------
(* The event loop *)

\* where the Tk thread dispatches callbacks
LoopPoints == {"mainloop", "dialog", "update"}

\* the frame upload_zip_folder leaves behind when a callback runs inside its
\* dialog or its self.update()
Frame == [at |-> pc, file_path |-> file_path]

Suspend == IF pc = "mainloop" THEN stack ELSE <<Frame>> \o stack

\* locals of an upload_zip_folder call that has not assigned them yet
FreshLocals ==
    /\ device' = NoDevice
    /\ zip' = <<>>
    /\ file_list' = <<>>
    /\ i' = 0
    /\ current_address' = 0

ClearGetDevice ==
    /\ caller' = "none"
    /\ ports' = <<>>
    /\ probed' = <<>>
    /\ ret' = NoRet

\* the callback returned, or raised into Tk's report_callback_exception:
\* the event loop that dispatched it goes on
Resume ==
    /\ UNCHANGED temp_files
    /\ pc = "callback_done"
    /\ IF stack = <<>>
       THEN /\ pc' = "mainloop"
            /\ UNCHANGED <<stack, file_path, device, zip, file_list, i,
                           current_address, effects, uploadResult>>
       ELSE /\ pc' = Head(stack).at
            /\ stack' = Tail(stack)
            /\ file_path' = Head(stack).file_path
            /\ FreshLocals
            /\ effects' = <<DialogEffect>>
            /\ uploadResult' = "running"
    /\ UNCHANGED <<current_status, pendingTasks, status_text, getDeviceVars>>

----------------------------------------------------------------------------
(* get_device *)

\* ports = get_used_ports()
GetUsedPorts ==
    /\ UNCHANGED temp_files
    /\ pc = "get_used_ports"
    /\ \E snapshot \in PortSnapshots : ports' = snapshot
    /\ probed' = <<>>
    /\ pc' = "for_port"
    /\ UNCHANGED <<stack, current_status, pendingTasks, status_text, caller, ret,
                   uploadVars, effects, uploadResult>>

\* one iteration of `for port in ports`
Probe ==
    /\ UNCHANGED temp_files
    /\ pc = "for_port"
    /\ Len(probed) < Len(ports)
    /\ LET port == ports[Len(probed) + 1]
           dev == NewDevice(port)
       IN  \E text \in Texts, returncode \in ReturnCodes :
              IF RaisesCalledProcessError(check_status_check, returncode)
              THEN /\ pc' = "callback_done"
                   /\ uploadResult' = IF caller = "upload" THEN "CalledProcessError"
                                      ELSE uploadResult
                   /\ ClearGetDevice
              ELSE LET status == check_status(text)
                       r == LoopReturn(dev, status)
                   IN  /\ probed' = Append(probed, [port |-> dev.port, text |-> text,
                                                    returncode |-> returncode,
                                                    status |-> status])
                       /\ IF r.done
                          THEN /\ ret' = [device |-> r.device, status |-> r.status]
                               /\ pc' = "get_device_return"
                          ELSE /\ ret' = ret
                               /\ pc' = "for_port"
                       /\ UNCHANGED <<caller, ports, uploadResult>>
    /\ UNCHANGED <<stack, current_status, pendingTasks, status_text, uploadVars,
                   effects>>

\* the else branch of the for loop
ForElse ==
    /\ UNCHANGED temp_files
    /\ pc = "for_port"
    /\ Len(probed) = Len(ports)
    /\ ret' = ForElseReturn
    /\ pc' = "get_device_return"
    /\ UNCHANGED <<stack, current_status, pendingTasks, status_text, caller, ports,
                   probed, uploadVars, effects, uploadResult>>

----------------------------------------------------------------------------
(* GUI.run: task *)

\* the timer fires: task() starts and calls get_device()
Tick ==
    /\ UNCHANGED temp_files
    /\ pc \in LoopPoints
    /\ pendingTasks > 0
    /\ pendingTasks' = pendingTasks - 1
    /\ stack' = Suspend
    /\ caller' = "task"
    /\ pc' = "get_used_ports"
    /\ UNCHANGED <<current_status, status_text, ports, probed, ret, uploadVars,
                   effects, uploadResult>>

StatusOutput(status) ==
    IF status = DEVICE_FOUND THEN DEVICE_FOUND_OUTPUT
    ELSE IF status = BOOT_MODE_ERROR THEN BOOT_MODE_ERROR_OUTPUT
    ELSE NO_DEVICE_FOUND_OUTPUT

\* a task that schedules itself again whatever the status
Reschedules_Always(status) == TRUE

\* a task that never schedules itself again
Reschedules_Never(status) == FALSE

\* task(): the `return` of the DEVICE_FOUND branch comes before self.after
Reschedules(status) == status # DEVICE_FOUND

\* task() after get_device() returned
TaskReturn ==
    /\ UNCHANGED temp_files
    /\ pc = "get_device_return"
    /\ caller = "task"
    /\ current_status' = ret.status
    /\ status_text' = StatusOutput(ret.status)
    /\ pendingTasks' = IF Reschedules(ret.status) THEN pendingTasks + 1
                       ELSE pendingTasks
    /\ ClearGetDevice
    /\ pc' = "callback_done"
    /\ UNCHANGED <<stack, uploadVars, effects, uploadResult>>

----------------------------------------------------------------------------
(* GUI.upload_zip_folder *)

\* the exception leaves upload_zip_folder
Raise(exception) ==
    /\ uploadResult' = exception
    /\ pc' = "callback_done"

\* the button is pressed: the guard, and on success askopenfilename opens
Click ==
    /\ UNCHANGED temp_files
    /\ pc \in {"mainloop", "update"}
    /\ pc = "update" => Len(stack) < MaxDepth
    /\ stack' = Suspend
    /\ file_path' = NoPath
    /\ FreshLocals
    /\ IF GuardRejects(current_status)
       THEN /\ effects' = <<>>
            /\ uploadResult' = "False"
            /\ pc' = "callback_done"
       ELSE /\ effects' = <<DialogEffect>>
            /\ uploadResult' = "running"
            /\ pc' = "dialog"
    /\ UNCHANGED <<current_status, pendingTasks, status_text, getDeviceVars>>

\* askopenfilename returns; the label is set
Dialog ==
    /\ UNCHANGED temp_files
    /\ pc = "dialog"
    /\ \E path \in Paths : file_path' = path
    /\ status_text' = UPLOADING_OUTPUT
    /\ pc' = "update"
    /\ UNCHANGED <<stack, current_status, pendingTasks, getDeviceVars, device, zip,
                   file_list, i, current_address, effects, uploadResult>>

\* self.update() has no more events; get_device() is called
UpdateDone ==
    /\ UNCHANGED temp_files
    /\ pc = "update"
    /\ caller' = "upload"
    /\ pc' = "get_used_ports"
    /\ UNCHANGED <<stack, current_status, pendingTasks, status_text, ports, probed,
                   ret, uploadVars, effects, uploadResult>>

\* device, _ = get_device(); on None, self.after(1000, task) names the local
\* function of run(), which is not in scope here: NameError
UploadResolved ==
    /\ UNCHANGED temp_files
    /\ pc = "get_device_return"
    /\ caller = "upload"
    /\ device' = ret.device
    /\ IF ret.device = NoDevice
       THEN Raise("NameError")
       ELSE /\ pc' = "clear_flash"
            /\ UNCHANGED uploadResult
    /\ ClearGetDevice
    /\ UNCHANGED <<stack, current_status, pendingTasks, status_text, file_path, zip,
                   file_list, i, current_address, effects>>

\* device.clear_flash()
ClearFlash ==
    /\ UNCHANGED temp_files
    /\ pc = "clear_flash"
    /\ \E returncode \in ReturnCodes :
          /\ effects' = Append(effects, EraseEffect(device.port, returncode))
          /\ IF RaisesCalledProcessError(clear_flash_check, returncode)
             THEN Raise("CalledProcessError")
             ELSE /\ pc' = "open_zip"
                  /\ UNCHANGED uploadResult
    /\ UNCHANGED <<stack, current_status, pendingTasks, status_text, getDeviceVars,
                   uploadVars>>

\* with zipfile.ZipFile(file_path) as zip, and the two lines that build file_list
OpenZip ==
    /\ UNCHANGED temp_files
    /\ pc = "open_zip"
    /\ effects' = Append(effects, OpenEffect)
    /\ \/ /\ file_path = NoPath
          /\ Raise("FileNotFoundError")
          /\ UNCHANGED <<zip, file_list, i, current_address>>
       \/ /\ file_path # NoPath
          /\ Raise("BadZipFile")
          /\ UNCHANGED <<zip, file_list, i, current_address>>
       \/ /\ file_path # NoPath
          /\ \E archive \in Archives :
                /\ zip' = archive
                /\ file_list' = FileList(archive)
          /\ i' = 1
          /\ current_address' = 0
          /\ pc' = "for_file"
          /\ UNCHANGED uploadResult
    /\ UNCHANGED <<stack, current_status, pendingTasks, status_text, getDeviceVars,
                   file_path, device>>

\* one iteration of `for i, file_name in enumerate(file_list, 1)`
ForFile ==
    /\ pc = "for_file"
    /\ i <= Len(file_list)
    /\ LET entry == file_list[i]
           name == zip[entry]
           temp_path == TempPath(name)
           check == IF EndsWith(name, DotBin) THEN upload_program_check
                    ELSE upload_file_check
       IN  IF Skipped(name)
           THEN /\ i' = i + 1
                /\ UNCHANGED <<pc, current_address, temp_files, effects,
                               uploadResult>>
           ELSE IF RIndexDot(name) = 0
           THEN /\ Raise("ValueError")
                /\ UNCHANGED <<i, current_address, temp_files, effects>>
           ELSE IF OpenFails(temp_path)
           THEN /\ Raise("FileNotFoundError")
                /\ UNCHANGED <<i, current_address, temp_files, effects>>
           ELSE \E returncode \in ReturnCodes :
                   IF RaisesCalledProcessError(check, returncode)
                   THEN /\ effects' = Append(effects,
                                WriteEffect(device.port, current_address, entry,
                                            None, returncode))
                        /\ temp_files' = temp_files \cup {temp_path}
                        /\ Raise("CalledProcessError")
                        /\ UNCHANGED <<i, current_address>>
                   ELSE \E size \in Sizes :
                           /\ effects' = Append(effects,
                                   WriteEffect(device.port, current_address, entry,
                                               size, returncode))
                           /\ current_address' = NextAddress(current_address, size)
                           /\ temp_files' = temp_files \ {temp_path}
                           /\ i' = i + 1
                           /\ UNCHANGED <<pc, uploadResult>>
    /\ UNCHANGED <<stack, current_status, pendingTasks, status_text, getDeviceVars,
                   file_path, device, zip, file_list>>

\* the loop is over: the label reports success, return True
ForDone ==
    /\ UNCHANGED temp_files
    /\ pc = "for_file"
    /\ i > Len(file_list)
    /\ status_text' = SUCCESS_OUTPUT
    /\ effects' = Append(effects, SuccessEffect)
    /\ uploadResult' = "True"
    /\ pc' = "callback_done"
    /\ UNCHANGED <<stack, current_status, pendingTasks, getDeviceVars, uploadVars>>

----------------------------------------------------------------------------

Next ==
    \/ Resume
    \/ GetUsedPorts
    \/ Probe
    \/ ForElse
    \/ Tick
    \/ TaskReturn
    \/ Click
    \/ Dialog
    \/ UpdateDone
    \/ UploadResolved
    \/ ClearFlash
    \/ OpenZip
    \/ ForFile
    \/ ForDone

Spec == Init /\ [][Next]_vars

\* The Tk thread goes on with the code it is running, and the event loop
\* serves a timer that is due however often the button is pressed.
LiveSpec ==
    /\ Spec
    /\ SF_vars(Tick)
    /\ WF_vars(GetUsedPorts \/ Probe \/ ForElse \/ TaskReturn \/ Resume)

----------------------------------------------------------------------------
(* What the claims speak of *)

IsWrite(e) == e.cmd = "write_flash"
IsErase(e) == e.cmd = "erase_flash"

\* the write_flash runs of the call, and those that exited with 0
Writes == SelectSeq(effects, IsWrite)
IsWritten(e) == IsWrite(e) /\ e.returncode = 0
Written == SelectSeq(effects, IsWritten)

IsBin(entry) == EndsWith(zip[entry], DotBin)

\* n rounded up to a multiple of CHUNK_SIZE
CeilingMultiple(n) == ((n + CHUNK_SIZE - 1) \div CHUNK_SIZE) * CHUNK_SIZE

Max(a, b) == IF a >= b THEN a ELSE b
Min(a, b) == IF a <= b THEN a ELSE b

\* the ranges [address, address + size) of a and b share a byte
Overlap(a, b) ==
    Max(a.address, b.address) < Min(a.address + a.size, b.address + b.size)

----------------------------------------------------------------------------
(* C1: the first entry is written at 0x0 and, after an entry of length L was  *)
(* written at address A, the next entry is written at A + L rounded up to a   *)
(* multiple of CHUNK_SIZE, which is A + L itself when A + L is a multiple.    *)
C1_NextAddressIsCeiling ==
    LET w == Writes
    IN  /\ Len(w) >= 1 => w[1].address = 0
        /\ \A k \in 1..(Len(w) - 1) :
              w[k + 1].address = CeilingMultiple(w[k].address + w[k].size)

(* C2: the addresses of the writes of a call are non-decreasing in write      *)
(* order, the first is 0x0, each is a multiple of CHUNK_SIZE, and the ranges  *)
(* [address, address + length) of two written entries never overlap.          *)
C2_AddressesAlignedDisjoint ==
    LET w == Writes
        done == Written
    IN  /\ Len(w) >= 1 => w[1].address = 0
        /\ \A k \in 1..Len(w) : w[k].address % CHUNK_SIZE = 0
        /\ \A j, k \in 1..Len(w) : j < k => w[j].address <= w[k].address
        /\ \A j, k \in 1..Len(done) : j # k => ~Overlap(done[j], done[k])

C2_Witness ==
    /\ Len(Written) >= 3
    /\ Written[1].size = CHUNK_SIZE
    /\ Written[2].size = 5000

(* C3: every entry whose name ends with .bin is written before every entry    *)
(* whose name does not, and inside either group the entries are written in    *)
(* the order of the archive's entry list.                                     *)
C3_BinFirstOrderKept ==
    LET w == Writes
    IN  \A j, k \in 1..Len(w) :
            j < k =>
                /\ IsBin(w[k].entry) => IsBin(w[j].entry)
                /\ IsBin(w[j].entry) = IsBin(w[k].entry) => w[j].entry < w[k].entry

C3_Witness ==
    /\ Len(Written) = 3
    /\ zip[1] = NameTxt
    /\ Written[1].entry = 2
    /\ Written[2].entry = 3
    /\ Written[3].entry = 1

(* C4: get_device returns (None, BOOT_MODE_ERROR) as soon as a probe yields    *)
(* BOOT_MODE_ERROR with no DEVICE_FOUND before it, and probes no later port.  *)
C4_BootModeErrorShortCircuits ==
    \A k \in 1..Len(probed) :
        (/\ probed[k].status = BOOT_MODE_ERROR
         /\ \A j \in 1..(k - 1) : probed[j].status # DEVICE_FOUND)
        => /\ k = Len(probed)
           /\ pc = "get_device_return"
           /\ ret = [device |-> NoDevice, status |-> BOOT_MODE_ERROR]

C4_Witness ==
    /\ pc = "get_device_return"
    /\ Len(ports) = 3
    /\ Len(probed) = 2
    /\ probed[1].status = NO_DEVICE_FOUND
    /\ probed[2].status = BOOT_MODE_ERROR

(* C5: get_device probes the ports in the order of the enumeration, each at   *)
(* most once; when the first probe that is not NO_DEVICE_FOUND yields         *)
(* DEVICE_FOUND it returns that port's device with DEVICE_FOUND and probes    *)
(* no later port; the device's port is the port identifier of the candidate.  *)
C5_FirstFoundWins ==
    /\ Len(probed) <= Len(ports)
    /\ \A k \in 1..Len(probed) : probed[k].port = ports[k][1]
    /\ \A k \in 1..Len(probed) :
          (/\ probed[k].status = DEVICE_FOUND
           /\ \A j \in 1..(k - 1) : probed[j].status = NO_DEVICE_FOUND)
          => /\ k = Len(probed)
             /\ pc = "get_device_return"
             /\ ret = [device |-> [port |-> ports[k][1]], status |-> DEVICE_FOUND]

C5_Witness ==
    /\ pc = "get_device_return"
    /\ Len(ports) = 3
    /\ Len(probed) = 2
    /\ probed[1].status = NO_DEVICE_FOUND
    /\ probed[2].status = DEVICE_FOUND
    /\ ret.device.port = ports[2][1]

(* C6: get_device returns (None, NO_DEVICE_FOUND) when there is no port, and   *)
(* when no probe yielded anything but NO_DEVICE_FOUND; then every port was    *)
(* probed exactly once.                                                       *)
C6_ExhaustedIsNoDeviceFound ==
    pc = "get_device_return" =>
        /\ ports = <<>> => ret = [device |-> NoDevice, status |-> NO_DEVICE_FOUND]
        /\ (\A k \in 1..Len(probed) : probed[k].status = NO_DEVICE_FOUND)
           => /\ ret = [device |-> NoDevice, status |-> NO_DEVICE_FOUND]
              /\ Len(probed) = Len(ports)
              /\ \A k \in 1..Len(ports) : probed[k].port = ports[k][1]

C6_Witness ==
    /\ pc = "get_device_return"
    /\ Len(ports) = 3
    /\ Len(probed) = 3
    /\ \A k \in 1..3 : probed[k].status = NO_DEVICE_FOUND
    /\ ret.status = NO_DEVICE_FOUND

(* C7: check_status classifies by the text alone, whatever the exit code: a   *)
(* text with the boot mode signature is BOOT_MODE_ERROR (also with the no     *)
(* device signature in it), a text with neither is DEVICE_FOUND, a text with  *)
(* the no device signature alone is NO_DEVICE_FOUND; and no exit code makes   *)
(* the probe raise: every probe ends with a classification.                   *)
C7_ClassifiedByTextAlone ==
    /\ [](\A k \in 1..Len(probed) :
            /\ BOOT_MODE_ERROR_TEXT \in probed[k].text
                   => probed[k].status = BOOT_MODE_ERROR
            /\ probed[k].text = {} => probed[k].status = DEVICE_FOUND
            /\ probed[k].text = {NO_DEVICE_FOUND_TEXT}
                   => probed[k].status = NO_DEVICE_FOUND)
    /\ [][(pc = "for_port" /\ Len(probed) < Len(ports))
            => /\ Len(probed') = Len(probed) + 1
               /\ pc' \in {"for_port", "get_device_return"}]_vars

C7_Witness ==
    \E k \in 1..Len(probed) :
        /\ probed[k].returncode # 0
        /\ probed[k].text = {BOOT_MODE_ERROR_TEXT, NO_DEVICE_FOUND_TEXT}
        /\ probed[k].status = BOOT_MODE_ERROR

(* C8: a call of upload_zip_folder made while current_status is not           *)
(* DEVICE_FOUND returns False and opens no dialog and no archive, runs no     *)
(* probe, erase or write, and leaves current_status and the scheduled task    *)
(* as they were.                                                              *)
C8_GuardRejectsWithoutEffect ==
    [][(/\ pc \in {"mainloop", "update"}
        /\ pc' \in {"dialog", "callback_done"}
        /\ current_status # DEVICE_FOUND)
       => /\ pc' = "callback_done"
          /\ uploadResult' = "False"
          /\ effects' = <<>>
          /\ UNCHANGED <<current_status, pendingTasks, status_text, caller, ports,
                         probed, ret, temp_files>>]_vars

C8_Witness ==
    /\ pc = "callback_done"
    /\ uploadResult = "False"
    /\ current_status = BOOT_MODE_ERROR
    /\ pendingTasks = 1
    /\ effects = <<>>

\* the positions of the erase_flash runs of the call
Erases == {k \in 1..Len(effects) : IsErase(effects[k])}

(* C9: a call runs erase_flash at most once, on the device get_device         *)
(* returned to it, and exactly once when it reaches the archive; every write  *)
(* comes after an erase that exited with 0; a failed erase ends the call in   *)
(* failure with no write and no success reported.                             *)
C9_OneEraseBeforeWrites ==
    /\ [](/\ Cardinality(Erases) <= 1
          /\ pc \in {"open_zip", "for_file"} => Cardinality(Erases) = 1
          /\ uploadResult = "True" => Cardinality(Erases) = 1
          /\ \A k \in Erases : effects[k].port = device.port /\ device # NoDevice
          /\ \A k \in 1..Len(effects) :
                IsWrite(effects[k]) =>
                    \E j \in Erases : /\ j < k
                                      /\ effects[j].returncode = 0
                                      /\ effects[j].port = effects[k].port
          /\ \A k \in Erases :
                effects[k].returncode # 0 =>
                    /\ k = Len(effects)
                    /\ uploadResult = "CalledProcessError"
                    /\ pc \in {"callback_done", "mainloop"})
    /\ [][(pc = "get_device_return" /\ caller = "upload") => device' = ret.device]_vars

C9_Witness ==
    /\ uploadResult = "True"
    /\ Len(Written) >= 2
    /\ Erases = {2}
    /\ effects[2].returncode = 0

HasFailedWrite == \E k \in 1..Len(effects) : IsWrite(effects[k]) /\ effects[k].returncode # 0

(* C10: a write that exits nonzero is the last thing its call does: it is not *)
(* retried, no later entry is written, success is not reported, and the       *)
(* entries written before it are neither erased nor written again.            *)
C10_FailedWriteAborts ==
    /\ [](\A k \in 1..Len(effects) :
            (IsWrite(effects[k]) /\ effects[k].returncode # 0)
            => /\ k = Len(effects)
               /\ uploadResult = "CalledProcessError"
               /\ pc \in {"callback_done", "mainloop"}
               /\ \A j \in 1..(k - 1) :
                     /\ IsWrite(effects[j]) => effects[j].returncode = 0
                     /\ IsWrite(effects[j]) => effects[j].entry # effects[k].entry
                     /\ IsErase(effects[j]) => \A m \in 1..(j - 1) : ~IsWrite(effects[m]))
    /\ [][HasFailedWrite => \/ effects' = effects
                            \/ effects' \in {<<>>, <<DialogEffect>>}]_vars

C10_Witness ==
    /\ HasFailedWrite
    /\ Len(Written) >= 1
    /\ uploadResult = "CalledProcessError"
    /\ ~IsBin(effects[Len(effects)].entry)

(* C11: a write that fails leaves no transient file behind: whenever no call  *)
(* of upload_zip_folder is running, failed or successful before, there is no  *)
(* temp<ext> file in the working directory.                                   *)
C11_NoTempFileLeftBehind ==
    uploadResult # "running" => temp_files = {}

\* a call of upload_zip_folder is past its guard and has not ended
UploadInProgress == uploadResult = "running" \/ stack # <<>>

(* C12: the poll and an upload never run together: while a call of            *)
(* upload_zip_folder is past its guard and not yet ended, its dialog and its  *)
(* self.update() included, no task() is scheduled or dispatched and no        *)
(* get_device() runs for a task.                                              *)
C12_NoPollDuringUpload ==
    UploadInProgress => caller # "task" /\ pendingTasks = 0

C12_Witness ==
    /\ pc = "update"
    /\ uploadResult = "running"
    /\ pendingTasks = 0
    /\ caller = "none"

(* C13: the poll keeps running: every task(), whatever status it resolved,    *)
(* leaves another task scheduled.                                             *)
C13_EveryTickReschedules ==
    [][(pc = "get_device_return" /\ caller = "task") => pendingTasks' >= 1]_vars

\* the step in which the get_device() of a task returns
TaskResolves == pc = "for_port" /\ caller = "task" /\ pc' = "get_device_return"

\* the ports answer a task with a device: its get_device() returns DEVICE_FOUND
AnsweredFound == TaskResolves => ret'.status = DEVICE_FOUND

(* C14: a task() that resolved NO_DEVICE_FOUND or BOOT_MODE_ERROR raises      *)
(* nothing: it stores the status, shows its text and schedules the next       *)
(* task; and if from some point on every resolution of a task finds a device  *)
(* (a port answers Found, none before it BootModeError), current_status       *)
(* eventually is DEVICE_FOUND.                                                *)
C14_DiscoveryErrorsRetried ==
    /\ [][(/\ pc = "get_device_return"
           /\ caller = "task"
           /\ ret.status \in {NO_DEVICE_FOUND, BOOT_MODE_ERROR})
          => /\ pc' = "callback_done"
             /\ current_status' = ret.status
             /\ status_text' = StatusOutput(ret.status)
             /\ pendingTasks' = pendingTasks + 1
             /\ UNCHANGED <<uploadResult, effects>>]_vars
    /\ (<>[][AnsweredFound]_vars) => <>(current_status = DEVICE_FOUND)

C14_Witness ==
    /\ pc = "get_device_return"
    /\ caller = "task"
    /\ current_status = BOOT_MODE_ERROR
    /\ ret.status = DEVICE_FOUND

\* upload_zip_folder ended past its guard without reaching `return True`
\* because no device was resolved again or an esptool run failed
Aborted == uploadResult \in {"NameError", "CalledProcessError"}

(* C15: after an upload that aborted (no device resolved again, or an erase   *)
(* or a write failed) the program polls again: back in the event loop a       *)
(* task is scheduled.                                                         *)
C15_AbortReturnsToPolling ==
    (pc = "mainloop" /\ Aborted) => pendingTasks >= 1

(* C16: when the get_device() of upload_zip_folder returns no device (the     *)
(* guard had passed on a status that is no longer true), the call returns     *)
(* False, and no erase, no write and no opening of the archive is added to    *)
(* what the call has done.                                                    *)
C16_NoDeviceReturnsFalse ==
    [][(pc = "get_device_return" /\ caller = "upload" /\ ret.device = NoDevice)
       => /\ uploadResult' = "False"
          /\ pc' = "callback_done"
          /\ effects' = effects]_vars

\* the names the specification excludes from the plan: empty, or the separator
Excluded(name) == name \in {NameEmpty, NameSep}

(* C17: an entry whose name is empty or '/' is passed over: the loop goes on  *)
(* to the next entry with no temporary file created, no write, the address    *)
(* unchanged and no error.                                                    *)
C17_ExcludedNamesPassedOver ==
    [][(/\ pc = "for_file"
        /\ i <= Len(file_list)
        /\ Excluded(zip[file_list[i]]))
       => /\ pc' = "for_file"
          /\ i' = i + 1
          /\ UNCHANGED <<current_address, temp_files, effects, uploadResult>>]_vars

\* the archive [a.txt, b.bin, '/'] and the lengths of its entries
PlanNames == <<NameTxt, NameBin, NameSep>>
PlanSizes == <<10, 5000, 0>>

\* a call that returned True on that archive, every written file of its length
PlanDone ==
    /\ uploadResult = "True"
    /\ zip = PlanNames
    /\ \A k \in 1..Len(Written) : Written[k].size = PlanSizes[Written[k].entry]

\* the entry and the address of each completed write, in order
WrittenAt == [k \in 1..Len(Written) |-> <<zip[Written[k].entry], Written[k].address>>]

(* C18 as stated: the archive [a.txt 10, b.bin 5000, '/' 0] is written as     *)
(* b.bin at 0x0, then a.txt at 0x1000, and '/' is not written.                *)
C18_PlanExampleAsStated ==
    PlanDone => WrittenAt = <<<<NameBin, 0>>, <<NameTxt, CHUNK_SIZE>>>>

(* C18 amended: the archive [a.txt 10, b.bin 5000, '/' 0] is written as       *)
(* b.bin at 0x0, then a.txt at 0x2000, and '/' is not written.                *)
C18_PlanExample ==
    PlanDone => WrittenAt = <<<<NameBin, 0>>, <<NameTxt, 2 * CHUNK_SIZE>>>>

C18_Witness ==
    /\ PlanDone
    /\ Len(Written) = 2
    /\ Written[1].size = 5000
    /\ Written[2].address = 2 * CHUNK_SIZE

\* a call has ended after it resolved a device and opened the archive, every
\* erase_flash and write_flash run of it exited with 0
EndedAllRunsSucceeded ==
    /\ uploadResult \notin {"none", "running"}
    /\ i >= 1
    /\ \A k \in 1..Len(effects) :
          (IsErase(effects[k]) \/ IsWrite(effects[k])) => effects[k].returncode = 0

NotExcluded(entry) == ~Excluded(zip[entry])

(* C19: a call that resolved a device and whose erase and writes all          *)
(* succeeded returns True whatever the names in the archive (names without    *)
(* a '.' included; the empty name, which C17 is about, left aside), having    *)
(* written each entry that is not excluded once, in the order of the plan,    *)
(* the first at 0x0 and each next one at the address computed from the one    *)
(* before.                                                                    *)
C19_AllSucceedReportsSuccess ==
    (EndedAllRunsSucceeded /\ \A e \in 1..Len(zip) : zip[e] # NameEmpty)
    => LET written == Written
       IN  /\ uploadResult = "True"
           /\ [k \in 1..Len(written) |-> written[k].entry]
                 = SelectSeq(file_list, NotExcluded)
           /\ \A k \in 1..Len(written) :
                 written[k].address =
                    IF k = 1 THEN 0
                    ELSE NextAddress(written[k - 1].address, written[k - 1].size)

\* zipfile.ZipFile(file_path) raised: no file chosen, or not a readable archive
ArchiveReadError ==
    \/ uploadResult = "BadZipFile"
    \/ uploadResult = "FileNotFoundError" /\ i = 0

(* C20: the flash is erased before the archive is opened: a call that         *)
(* resolved a device has run erase_flash on it by the time it reaches         *)
(* ZipFile(file_path), whatever the path (the empty path of a cancelled       *)
(* dialog included); every opening of the archive comes right after an erase  *)
(* that exited with 0; and a call that ends on an archive error has erased    *)
(* the device and written nothing.                                            *)
C20_EraseBeforeArchiveOpened ==
    /\ pc \in {"open_zip", "for_file"} =>
          effects = <<DialogEffect, EraseEffect(device.port, 0)>>
          \/ (Len(effects) >= 3 /\ effects[3] = OpenEffect)
    /\ \A k \in 1..Len(effects) :
          effects[k] = OpenEffect =>
             /\ k = 3
             /\ effects[1] = DialogEffect
             /\ effects[2] = EraseEffect(device.port, 0)
             /\ device # NoDevice
    /\ ArchiveReadError =>
          effects = <<DialogEffect, EraseEffect(device.port, 0), OpenEffect>>

C20_Witness ==
    /\ uploadResult = "FileNotFoundError"
    /\ file_path = NoPath
    /\ effects = <<DialogEffect, EraseEffect(device.port, 0), OpenEffect>>

====
